---- MODULE Spec2Model ----
(***************************************************************************)
(* Model of snapshots/devmapper/config.go: LoadConfig, Config.parse and    *)
(* Config.Validate of the devmapper snapshotter.                           *)
(*                                                                         *)
(* Strings whose characters the code inspects (base_image_size) are        *)
(* sequences of one-character strings.  Byte counts exceed the range of    *)
(* the model checker's integers, so a byte count is a little-endian        *)
(* sequence of base-1000 limbs without leading zero limbs:                 *)
(*   0 = <<>>, 1024 = <<24, 1>>, 32,000,000,000 = <<0, 0, 0, 32>>.         *)
(***************************************************************************)
EXTENDS Integers, Sequences, FiniteSets, TLC

VARIABLES file, pc, config, ret, executed

vars == <<file, pc, config, ret, executed>>

---------------------------------------------------------------------------
(* Bounds of the model.                                                    *)

\* Longest unit suffix appended to a number when size strings are enumerated.
MaxSuffixLen == 3

---------------------------------------------------------------------------
(* Byte counts: base-1000 limbs, least significant first.                  *)

LimbBase == 1000

RECURSIVE SignificantLimbs(_, _)
\* the number of limbs of b[1..i] up to its last non-zero limb
SignificantLimbs(b, i) ==
    IF i = 0 THEN 0
    ELSE IF b[i] = 0 THEN SignificantLimbs(b, i - 1)
    ELSE i

Normalize(b) == SubSeq(b, 1, SignificantLimbs(b, Len(b)))

RECURSIVE MulCarry(_, _, _)
MulCarry(b, m, carry) ==
    IF b = <<>>
    THEN IF carry = 0 THEN <<>>
         ELSE <<carry % LimbBase>> \o MulCarry(<<>>, m, carry \div LimbBase)
    ELSE LET t == b[1] * m + carry
         IN  <<t % LimbBase>> \o MulCarry(Tail(b), m, t \div LimbBase)

\* b * m + a, for small m and a.  (The operand is bound once, so that it is
\* evaluated once however deeply products are nested.)
MulAdd(b, m, a) ==
    CHOOSE r \in {Normalize(MulCarry(x, m, a)) : x \in {b}} : TRUE

RECURSIVE DivRem(_, _, _, _)
\* quotient limbs of b[1..i] \div d, the most significant limb first, rem
\* being the remainder carried down from the limbs above
DivRem(b, d, rem, i) ==
    IF i = 0 THEN <<>>
    ELSE LET t == rem * LimbBase + b[i]
         IN  DivRem(b, d, t % d, i - 1) \o <<t \div d>>

\* floor(b / d), for small d
DivSmall(b, d) ==
    CHOOSE r \in {Normalize(DivRem(x, d, 0, Len(x))) : x \in {b}} : TRUE

RECURSIVE Times(_, _, _)
\* b * m^n
Times(b, m, n) == IF n = 0 THEN b ELSE Times(MulAdd(b, m, 0), m, n - 1)

RECURSIVE DivTimes(_, _, _)
\* floor(b / d^n)
DivTimes(b, d, n) == IF n = 0 THEN b ELSE DivTimes(DivSmall(b, d), d, n - 1)

---------------------------------------------------------------------------
\* units.RAMInBytes, the conversion Config.parse applies to BaseImageSize.
\* It matches the string against
\*     ^(\d+(\.\d+)*) ?([kKmMgGtTpP])?[iI]?[bB]?$
\* reads group 1 as a float, and multiplies by the binary unit of group 3.

DigitChars == {"0", "1", "2", "3", "4", "5", "6", "7", "8", "9"}

DigitVal(ch) ==
    CASE ch = "0" -> 0 [] ch = "1" -> 1 [] ch = "2" -> 2 [] ch = "3" -> 3
      [] ch = "4" -> 4 [] ch = "5" -> 5 [] ch = "6" -> 6 [] ch = "7" -> 7
      [] ch = "8" -> 8 [] ch = "9" -> 9

\* strings.ToLower on one character of the unit alphabet
ToLower(ch) ==
    CASE ch = "K" -> "k" [] ch = "M" -> "m" [] ch = "G" -> "g"
      [] ch = "T" -> "t" [] ch = "P" -> "p" [] ch = "I" -> "i"
      [] ch = "B" -> "b" [] OTHER -> ch

KiB == 1024

RECURSIVE NumLen(_)
\* length of the longest prefix made of digits and dots: what group 1 must
\* consume, since nothing after it matches a digit or a dot
NumLen(s) ==
    IF s = <<>> THEN 0
    ELSE IF s[1] \in DigitChars \cup {"."} THEN 1 + NumLen(Tail(s))
    ELSE 0

\* group 1: runs of digits separated by single dots
IsNumGroup(n) ==
    /\ n # <<>>
    /\ n[1] # "."
    /\ n[Len(n)] # "."
    /\ \A i \in 1..(Len(n) - 1) : ~(n[i] = "." /\ n[i + 1] = ".")

DropIf(s, chars) == IF s # <<>> /\ s[1] \in chars THEN Tail(s) ELSE s

UnitPrefixChars == {"k", "K", "m", "M", "g", "G", "t", "T", "p", "P"}

\* sizeRegex.FindStringSubmatch: the number group and the unit group
SizeMatch(s) ==
    LET n     == NumLen(s)
        num   == SubSeq(s, 1, n)
        r0    == SubSeq(s, n + 1, Len(s))
        r1    == DropIf(r0, {" "})
        unit  == IF r1 # <<>> /\ r1[1] \in UnitPrefixChars THEN r1[1] ELSE ""
        r2    == DropIf(r1, UnitPrefixChars)
        r3    == DropIf(r2, {"i", "I"})
        r4    == DropIf(r3, {"b", "B"})
    IN  [matched |-> IsNumGroup(num) /\ r4 = <<>>, num |-> num, unit |-> unit]

Dots(n) == Cardinality({i \in 1..Len(n) : n[i] = "."})

RECURSIVE FracLen(_)
\* digits after the dot
FracLen(n) ==
    IF n = <<>> THEN 0
    ELSE IF n[1] = "." THEN Len(n) - 1
    ELSE FracLen(Tail(n))

RECURSIVE Mantissa(_, _)
\* the digits of n read as one integer, the dot skipped
Mantissa(n, acc) ==
    IF n = <<>> THEN acc
    ELSE IF n[1] = "." THEN Mantissa(Tail(n), acc)
    ELSE Mantissa(Tail(n), MulAdd(acc, 10, DigitVal(n[1])))

\* The power of the unit base a prefix stands for; binaryMap and decimalMap
\* agree on it and differ in the base.
UnitExp(u) ==
    CASE u = "k" -> 1 [] u = "m" -> 2 [] u = "g" -> 3 [] u = "t" -> 4
      [] u = "p" -> 5 [] OTHER -> 0

\* the unit base of a map: KiB in binaryMap, 1000 in decimalMap
UnitBase(uMap) == IF uMap = "binaryMap" THEN KiB ELSE 1000

\* the size a match stands for: [ok, val].  strconv.ParseFloat rejects a
\* second dot.  The product is a float64 truncated to int64; the numbers
\* enumerated below are integers or dyadic fractions of at most four digits,
\* for which the float64 product is exact, so it is
\* floor(mantissa * mul / 10^frac).
MatchedSize(m, uMap) ==
    IF ~m.matched THEN [ok |-> FALSE, val |-> <<>>]
    ELSE IF Dots(m.num) > 1 THEN [ok |-> FALSE, val |-> <<>>]
    ELSE [ok  |-> TRUE,
          val |-> DivTimes(Times(Mantissa(m.num, <<>>), UnitBase(uMap),
                                 UnitExp(ToLower(m.unit))),
                           10, FracLen(m.num))]

\* parseSize(size, uMap)
ParseSize(s, uMap) ==
    CHOOSE r \in {MatchedSize(m, uMap) : m \in {SizeMatch(s)}} : TRUE

\* units.FromHumanSize: the decimal reading of the same notation
FromHumanSize(s) == ParseSize(s, "decimalMap")

RAMInBytes(s) == ParseSize(s, "binaryMap")

\* uint64(x) of the int64 RAMInBytes returns: a successful parse is never
\* negative, and a non-negative int64 converts to itself
uint64(x) == Normalize(x)

---------------------------------------------------------------------------
(* Config and the error values LoadConfig returns.                         *)

ZeroConfig ==
    [RootPath |-> "", PoolName |-> "", BaseImageSize |-> <<>>,
     BaseImageSizeBytes |-> <<>>, AsyncRemove |-> FALSE,
     DiscardBlocks |-> FALSE]

\* An error: its Go type, the message of the outermost layer, the string
\* formatted into that message, the type of the wrapped cause, and the
\* messages a multierror aggregates.
Err(type, msg, arg, cause, errors) ==
    [type |-> type, msg |-> msg, arg |-> arg, cause |-> cause,
     errors |-> errors]

Nil == Err("nil", "", <<>>, "", <<>>)

ErrNotExist == Err("os.ErrNotExist", "file does not exist", <<>>, "", <<>>)

\* the *os.PathError a failing system call returns
PathError(op, errno) == Err("os.PathError", op, <<>>, errno, <<>>)

\* errors.Wrapf(cause, msg, arg)
Wrapf(cause, msg, arg) == Err("errors.withStack", msg, arg, cause, <<>>)

\* multierror.Append(result, fmt.Errorf(msg))
multierrorAppend(result, msg) == result \o <<msg>>

\* (*multierror.Error).ErrorOrNil
ErrorOrNil(result) ==
    IF result = <<>> THEN Nil
    ELSE Err("multierror.Error", "", <<>>, "", result)

\* parse with the assignment to BaseImageSizeBytes left out
parse_KeepsBytes(c) ==
    IF ~RAMInBytes(c.BaseImageSize).ok
    THEN [c   |-> c,
          err |-> Wrapf("units.invalidSize",
                        "failed to parse base image size", c.BaseImageSize)]
    ELSE [c |-> c, err |-> Nil]

\* parse taking an empty size string for zero bytes
parse_EmptyIsZero(c) ==
    LET r == IF c.BaseImageSize = <<>> THEN [ok |-> TRUE, val |-> <<>>]
             ELSE RAMInBytes(c.BaseImageSize)
    IN  IF ~r.ok
        THEN [c   |-> c,
              err |-> Wrapf("units.invalidSize",
                            "failed to parse base image size", c.BaseImageSize)]
        ELSE [c   |-> [c EXCEPT !.BaseImageSizeBytes = uint64(r.val)],
              err |-> Nil]

\* c.parse(): the record after the call and the error returned
parse(c) ==
    LET r == RAMInBytes(c.BaseImageSize)
    IN  IF ~r.ok
        THEN [c   |-> c,
              err |-> Wrapf("units.invalidSize",
                            "failed to parse base image size", c.BaseImageSize)]
        ELSE [c   |-> [c EXCEPT !.BaseImageSizeBytes = uint64(r.val)],
              err |-> Nil]

\* Validate returning at the first violation
Validate_FirstOnly(c) ==
    [c   |-> c,
     err |-> IF c.PoolName = ""
             THEN ErrorOrNil(<<"pool_name is required">>)
             ELSE IF c.RootPath = ""
             THEN ErrorOrNil(<<"root_path is required">>)
             ELSE IF c.BaseImageSize = <<>>
             THEN ErrorOrNil(<<"base_image_size is required">>)
             ELSE Nil]

\* Validate recomputing the byte count and reporting a size it cannot parse
Validate_Reparses(c) ==
    LET r  == RAMInBytes(c.BaseImageSize)
        r1 == IF c.PoolName = "" THEN <<"pool_name is required">> ELSE <<>>
        r2 == IF c.RootPath = "" THEN r1 \o <<"root_path is required">>
              ELSE r1
        r3 == IF ~r.ok THEN r2 \o <<"base_image_size is required">> ELSE r2
    IN  [c   |-> IF r.ok THEN [c EXCEPT !.BaseImageSizeBytes = uint64(r.val)]
                 ELSE c,
         err |-> ErrorOrNil(r3)]

\* c.Validate(): the record after the call and the error returned
Validate(c) ==
    LET r0 == <<>>
        r1 == IF c.PoolName = "" THEN multierrorAppend(r0, "pool_name is required")
              ELSE r0
        r2 == IF c.RootPath = "" THEN multierrorAppend(r1, "root_path is required")
              ELSE r1
        r3 == IF c.BaseImageSize = <<>>
              THEN multierrorAppend(r2, "base_image_size is required")
              ELSE r2
    IN  [c |-> c, err |-> ErrorOrNil(r3)]

---------------------------------------------------------------------------
(* The file at the path, and the inputs the model enumerates.              *)

\* A key of the TOML document: absent, or present with a value of some type.
StringKey(v) == [type |-> "string", s |-> v]
AbsentString(v) == [type |-> "absent", s |-> v]
\* a present key whose value does not convert to a string field
NotAString(v) == [type |-> "bool", s |-> v]

BoolKeys ==
    {[type |-> "absent", b |-> FALSE], [type |-> "bool", b |-> FALSE],
     [type |-> "bool", b |-> TRUE], [type |-> "string", b |-> FALSE]}

PathKeys(v) ==
    {AbsentString(""), StringKey(""), StringKey(v), NotAString("")}

RECURSIVE SeqsUpTo(_, _)
\* every sequence over alphabet of length at most n
SeqsUpTo(alphabet, n) ==
    IF n = 0 THEN {<<>>}
    ELSE LET shorter == SeqsUpTo(alphabet, n - 1)
         IN  shorter \cup {<<ch>> \o t : ch \in alphabet, t \in shorter}

SuffixAlphabet == {" ", "K", "G", "m", "t", "i", "B", "x"}

Numbers ==
    {<<>>, <<"0">>, <<"1">>, <<"3", "2">>, <<"1", "0", "2", "4">>,
     <<"1", ".", "5">>, <<"1", ".", "2", ".", "5">>}

\* size strings: a number followed by every suffix up to MaxSuffixLen
WideSizes ==
    {n \o t : n \in Numbers, t \in SeqsUpTo(SuffixAlphabet, MaxSuffixLen)}

\* the size strings combined with every choice of the other keys
DocSizes ==
    {<<>>, <<"0">>, <<"1", "0", "2", "4">>, <<"1", "K", "i", "B">>,
     <<"3", "2", "G", "B">>, <<"3", "2", "G", "i", "B">>,
     <<"1", ".", "5", "k">>, <<"a", "b", "c">>, <<"1", "2", "x">>,
     <<"-", "1">>}

SizeKeys(sizes) ==
    {AbsentString(<<>>), NotAString(<<>>)} \cup {StringKey(z) : z \in sizes}

Doc(root, pool, size, async, discard) ==
    [root_path |-> root, pool_name |-> pool, base_image_size |-> size,
     async_remove |-> async, discard_blocks |-> discard]

FullDocs ==
    {Doc(r, p, z, a, d) : r \in PathKeys("/tmp"), p \in PathKeys("pool"),
                          z \in SizeKeys(DocSizes), a \in BoolKeys,
                          d \in BoolKeys}

WideDocs ==
    {Doc(StringKey("/tmp"), StringKey("pool"), StringKey(z),
         [type |-> "absent", b |-> FALSE], [type |-> "bool", b |-> TRUE])
       : z \in WideSizes}

FewDocs ==
    {Doc(StringKey("/tmp"), p, StringKey(z),
         [type |-> "bool", b |-> TRUE], [type |-> "absent", b |-> FALSE])
       : p \in {AbsentString(""), StringKey("pool")},
         z \in {<<"1", "K", "i", "B">>, <<"a", "b", "c">>}}

\* what os.Stat and the open of toml.LoadFile meet at the path, whether the
\* content is syntactically valid TOML, and the document it holds
File(stat, open, syntaxOk, doc) ==
    [stat |-> stat, open |-> open, syntaxOk |-> syntaxOk, doc |-> doc]

StatResults == {"ok", "ENOENT", "EACCES"}
OpenResults == {"ok", "EACCES", "EIO"}

Files ==
    {File("ok", "ok", TRUE, d) : d \in FullDocs \cup WideDocs}
    \cup {File(st, op, syn, d) : st \in StatResults, op \in OpenResults,
                                 syn \in BOOLEAN, d \in FewDocs}

\* records a caller builds itself and hands to Validate
Records ==
    [RootPath : {"", "/tmp"}, PoolName : {"", "pool"},
     BaseImageSize : {<<>>, <<"1", "K", "i", "B">>, <<"a", "b", "c">>},
     BaseImageSizeBytes : {<<>>, <<24, 1>>, <<7>>},
     AsyncRemove : BOOLEAN, DiscardBlocks : BOOLEAN]

NoFile == File("ENOENT", "ok", FALSE, CHOOSE d \in FewDocs : TRUE)

---------------------------------------------------------------------------
(* LoadConfig, one action per statement, and a direct call of Validate.    *)

NilConfig == [nil |-> TRUE, val |-> ZeroConfig]
Ref(c) == [nil |-> FALSE, val |-> c]

NotReturned == [returned |-> FALSE, config |-> NilConfig, err |-> Nil]
Return(ptr, err) == [returned |-> TRUE, config |-> ptr, err |-> err]

Init ==
    /\ ret = NotReturned
    /\ executed = <<>>
    /\ \/ /\ pc = "Stat"
          /\ file \in Files
          /\ config = ZeroConfig
       \/ /\ pc = "ValidateCall"
          /\ file = NoFile
          /\ config \in Records

\* return nil, err
Fail(err) ==
    /\ ret' = Return(NilConfig, err)
    /\ pc' = "Failed"
    /\ UNCHANGED config

\* Stat returning every error of os.Stat as it is
Stat_Verbatim ==
    /\ pc = "Stat"
    /\ executed' = Append(executed, "Stat")
    /\ UNCHANGED file
    /\ IF file.stat # "ok"
       THEN Fail(PathError("stat", file.stat))
       ELSE /\ pc' = "LoadFile"
            /\ UNCHANGED <<config, ret>>

\* os.Stat(path)
Stat ==
    /\ pc = "Stat"
    /\ executed' = Append(executed, "Stat")
    /\ UNCHANGED file
    /\ IF file.stat # "ok"
       THEN IF file.stat = "ENOENT"
            THEN Fail(ErrNotExist)
            ELSE Fail(PathError("stat", file.stat))
       ELSE /\ pc' = "LoadFile"
            /\ UNCHANGED <<config, ret>>

\* LoadFile reporting a failure without its cause
LoadFile_DropsCause ==
    /\ pc = "LoadFile"
    /\ executed' = Append(executed, "LoadFile")
    /\ UNCHANGED file
    /\ IF file.open # "ok" \/ ~file.syntaxOk
       THEN Fail(Wrapf("toml.syntaxError", "failed to open devmapepr TOML",
                       <<>>))
       ELSE /\ pc' = "Unmarshal"
            /\ config' = ZeroConfig
            /\ UNCHANGED ret

\* config := Config{}; toml.LoadFile(path)
LoadFile ==
    /\ pc = "LoadFile"
    /\ executed' = Append(executed, "LoadFile")
    /\ UNCHANGED file
    /\ IF file.open # "ok"
       THEN Fail(Wrapf("os.PathError", "failed to open devmapepr TOML", <<>>))
       ELSE IF ~file.syntaxOk
       THEN Fail(Wrapf("toml.syntaxError", "failed to open devmapepr TOML",
                       <<>>))
       ELSE /\ pc' = "Unmarshal"
            /\ config' = ZeroConfig
            /\ UNCHANGED ret

\* the value a string field takes from its key
StringField(key, zero) == IF key.type = "absent" THEN zero ELSE key.s
\* a boolean key that is never read
BoolField_Zero(key, zero) == zero

BoolField(key, zero) == IF key.type = "absent" THEN zero ELSE key.b

Convertible(doc) ==
    /\ doc.root_path.type \in {"absent", "string"}
    /\ doc.pool_name.type \in {"absent", "string"}
    /\ doc.base_image_size.type \in {"absent", "string"}
    /\ doc.async_remove.type \in {"absent", "bool"}
    /\ doc.discard_blocks.type \in {"absent", "bool"}

\* the record file.Unmarshal(&config) leaves: keys by their toml tags,
\* BaseImageSizeBytes (toml:"-") untouched
Unmarshalled(doc, c) ==
    [RootPath           |-> StringField(doc.root_path, c.RootPath),
     PoolName           |-> StringField(doc.pool_name, c.PoolName),
     BaseImageSize      |-> StringField(doc.base_image_size, c.BaseImageSize),
     BaseImageSizeBytes |-> c.BaseImageSizeBytes,
     AsyncRemove        |-> BoolField(doc.async_remove, c.AsyncRemove),
     DiscardBlocks      |-> BoolField(doc.discard_blocks, c.DiscardBlocks)]

\* file.Unmarshal(&config)
Unmarshal ==
    /\ pc = "Unmarshal"
    /\ executed' = Append(executed, "Unmarshal")
    /\ UNCHANGED file
    /\ IF ~Convertible(file.doc)
       THEN Fail(Wrapf("toml.unmarshalError",
                       "failed to unmarshal devmapper TOML", <<>>))
       ELSE /\ pc' = "parse"
            /\ config' = Unmarshalled(file.doc, config)
            /\ UNCHANGED ret

\* LoadConfig going on to Validate after parse failed
ParseStep_IgnoresError ==
    /\ pc = "parse"
    /\ executed' = Append(executed, "parse")
    /\ pc' = "Validate"
    /\ config' = parse(config).c
    /\ UNCHANGED <<file, ret>>

\* LoadConfig returning the record without calling Validate
ParseStep_SkipsValidate ==
    /\ pc = "parse"
    /\ executed' = Append(executed, "parse")
    /\ UNCHANGED file
    /\ LET r == parse(config)
       IN  IF r.err # Nil
           THEN /\ ret' = Return(NilConfig, r.err)
                /\ pc' = "Failed"
                /\ config' = r.c
           ELSE /\ pc' = "Return"
                /\ config' = r.c
                /\ UNCHANGED ret

\* config.parse()
ParseStep ==
    /\ pc = "parse"
    /\ executed' = Append(executed, "parse")
    /\ UNCHANGED file
    /\ LET r == parse(config)
       IN  IF r.err # Nil
           THEN /\ ret' = Return(NilConfig, r.err)
                /\ pc' = "Failed"
                /\ config' = r.c
           ELSE /\ pc' = "Validate"
                /\ config' = r.c
                /\ UNCHANGED ret

\* config.Validate()
ValidateStep ==
    /\ pc = "Validate"
    /\ executed' = Append(executed, "Validate")
    /\ UNCHANGED file
    /\ LET r == Validate(config)
       IN  IF r.err # Nil
           THEN /\ ret' = Return(NilConfig, r.err)
                /\ pc' = "Failed"
                /\ config' = r.c
           ELSE /\ pc' = "Return"
                /\ config' = r.c
                /\ UNCHANGED ret

\* return &config, nil
ReturnConfig ==
    /\ pc = "Return"
    /\ executed' = Append(executed, "Return")
    /\ ret' = Return(Ref(config), Nil)
    /\ pc' = "Ready"
    /\ UNCHANGED <<file, config>>

\* record.Validate() called by a holder of a record it built itself
ValidateCall ==
    /\ pc = "ValidateCall"
    /\ executed' = Append(executed, "Validate")
    /\ LET r == Validate(config)
       IN  /\ config' = r.c
           /\ ret' = Return(Ref(r.c), r.err)
    /\ pc' = "ValidateDone"
    /\ UNCHANGED file

Next ==
    \/ Stat
    \/ LoadFile
    \/ Unmarshal
    \/ ParseStep
    \/ ValidateStep
    \/ ReturnConfig
    \/ ValidateCall

Spec == Init /\ [][Next]_vars

---------------------------------------------------------------------------
(* Vocabulary of the properties.                                           *)

LoadPcs ==
    {"Stat", "LoadFile", "Unmarshal", "parse", "Validate", "Return", "Ready",
     "Failed"}

Range(q) == {q[i] : i \in 1..Len(q)}

\* the error kind a returned error belongs to
Kind(e) ==
    CASE e.type = "nil" -> "none"
      [] e.type = "os.ErrNotExist" -> "NotFound"
      [] e.type = "os.PathError" -> "IOFailure"
      [] e.type = "errors.withStack" /\ e.cause = "os.PathError" -> "IOFailure"
      [] e.type = "errors.withStack"
           /\ e.cause \in {"toml.syntaxError", "toml.unmarshalError",
                           "units.invalidSize"} -> "ParseFailure"
      [] e.type = "multierror.Error" -> "ValidationFailure"
      [] OTHER -> "unknown"

\* the value a present, well-typed key holds, the empty string otherwise
KeyString(key, empty) == IF key.type = "string" THEN key.s ELSE empty

\* the messages expected for a record, from its three required fields alone
ExpectedMessages(root, pool, size) ==
    {m \in {"pool_name is required", "root_path is required",
            "base_image_size is required"} :
        \/ m = "pool_name is required" /\ pool = ""
        \/ m = "root_path is required" /\ root = ""
        \/ m = "base_image_size is required" /\ size = <<>>}

\* the kind of the first step that fails on a file, in the order existence
\* check, read, deserialization, size normalization, validation
FirstFailure(f) ==
    IF f.stat = "ENOENT" THEN "NotFound"
    ELSE IF f.stat # "ok" THEN "IOFailure"
    ELSE IF f.open # "ok" THEN "IOFailure"
    ELSE IF ~f.syntaxOk THEN "ParseFailure"
    ELSE IF ~Convertible(f.doc) THEN "ParseFailure"
    ELSE IF ~RAMInBytes(KeyString(f.doc.base_image_size, <<>>)).ok
    THEN "ParseFailure"
    ELSE IF ExpectedMessages(KeyString(f.doc.root_path, ""),
                             KeyString(f.doc.pool_name, ""),
                             KeyString(f.doc.base_image_size, <<>>)) # {}
    THEN "ValidationFailure"
    ELSE "none"

StageOf(p) ==
    CASE p \in {"Stat", "LoadFile", "Unmarshal"} -> "Unloaded"
      [] p = "parse" -> "Deserialized"
      [] p = "Validate" -> "Normalized"
      [] p = "Return" -> "Validated"
      [] p = "Ready" -> "Ready"
      [] p = "Failed" -> "Failed"
      [] OTHER -> "none"

---------------------------------------------------------------------------
(* The properties.                                                         *)

\* C1: a record LoadConfig returns has non-empty RootPath, PoolName and
\* BaseImageSize, and its BaseImageSizeBytes is the parse of its
\* BaseImageSize; and a readable, well-formed document with the three
\* required keys non-empty and a parseable size loads successfully.
C1_LoadedRecordIsNormalized ==
    /\ pc = "Ready" =>
         /\ ret.returned /\ ret.err = Nil /\ ~ret.config.nil
         /\ ret.config.val.RootPath # ""
         /\ ret.config.val.PoolName # ""
         /\ ret.config.val.BaseImageSize # <<>>
         /\ RAMInBytes(ret.config.val.BaseImageSize).ok
         /\ ret.config.val.BaseImageSizeBytes
              = RAMInBytes(ret.config.val.BaseImageSize).val
    /\ (pc \in {"Ready", "Failed"} /\ FirstFailure(file) = "none") =>
         pc = "Ready"

C1_Witness ==
    /\ pc = "Ready"
    /\ ret.config.val.BaseImageSize = <<"1", "K", "i", "B">>
    /\ ret.config.val.BaseImageSizeBytes = <<24, 1>>

\* C2: Validate returns one message per empty required field and no other
\* message, whatever the other violations, and no error exactly when the
\* three required fields are non-empty.
C2_ValidateOneMessagePerEmptyField ==
    pc = "ValidateDone" =>
        LET expected == ExpectedMessages(config.RootPath, config.PoolName,
                                         config.BaseImageSize)
        IN  /\ Range(ret.err.errors) = expected
            /\ Len(ret.err.errors) = Cardinality(expected)
            /\ (ret.err = Nil) <=> (expected = {})
            /\ (ret.err # Nil) => Kind(ret.err) = "ValidationFailure"

C2_Witness ==
    /\ pc = "ValidateDone"
    /\ config.RootPath = "" /\ config.PoolName = ""
    /\ config.BaseImageSize = <<>>
    /\ Len(ret.err.errors) = 3

\* C3: on a path where no file exists LoadConfig returns os.ErrNotExist and
\* no record, and runs nothing after the existence check.
C3_MissingFileIsNotFound ==
    (pc \in LoadPcs /\ pc # "Stat" /\ file.stat = "ENOENT") =>
        /\ pc = "Failed"
        /\ ret = Return(NilConfig, ErrNotExist)
        /\ Kind(ret.err) = "NotFound"
        /\ executed = <<"Stat">>
        /\ config = ZeroConfig

C3_Witness ==
    /\ pc = "Failed" /\ file.stat = "ENOENT" /\ file.syntaxOk
    /\ file.doc.pool_name.type = "absent"
    /\ ret.err = ErrNotExist

\* integers, as written and as byte counts
WholeNumbers ==
    {[digits |-> <<"0">>, val |-> <<>>], [digits |-> <<"1">>, val |-> <<1>>],
     [digits |-> <<"3", "2">>, val |-> <<32>>],
     [digits |-> <<"1", "0", "2", "4">>, val |-> <<24, 1>>]}

\* unit letters and the power each stands for
UnitLetters ==
    {[ch |-> "K", exp |-> 1], [ch |-> "m", exp |-> 2],
     [ch |-> "G", exp |-> 3], [ch |-> "t", exp |-> 4]}

\* C4 as stated: K, M, G, T with or without B are powers of 1000 and Ki, Mi,
\* Gi, Ti are powers of 1024: "0" is 0, "1024" is 1024, "1KiB" is 1024,
\* "32GB" is 32,000,000,000 and "32GiB" is 34,359,738,368 bytes.
C4_DecimalAndBinaryUnits ==
    pc = "Ready" =>
        LET z == ret.config.val.BaseImageSize
            b == ret.config.val.BaseImageSizeBytes
        IN  /\ z = <<"0">> => b = <<>>
            /\ z = <<"1", "0", "2", "4">> => b = <<24, 1>>
            /\ z = <<"1", "K", "i", "B">> => b = <<24, 1>>
            /\ z = <<"3", "2", "G", "B">> => b = <<0, 0, 0, 32>>
            /\ z = <<"3", "2", "G", "i", "B">> => b = <<368, 738, 359, 34>>
            /\ \A n \in WholeNumbers, u \in UnitLetters :
                 /\ z \in {n.digits \o <<u.ch>>, n.digits \o <<u.ch, "B">>}
                      => b = Times(n.val, 1000, u.exp)
                 /\ z \in {n.digits \o <<u.ch, "i">>,
                           n.digits \o <<u.ch, "i", "B">>}
                      => b = Times(n.val, 1024, u.exp)

\* C4, amended: K, M, G, T are powers of 1024 with or without i and with or
\* without B: "0" is 0, "1024" is 1024, "1KiB" is 1024, and "32GB" and
\* "32GiB" are both 34,359,738,368 bytes.
C4_AllUnitsBinary ==
    pc = "Ready" =>
        LET z == ret.config.val.BaseImageSize
            b == ret.config.val.BaseImageSizeBytes
        IN  /\ z = <<"0">> => b = <<>>
            /\ z = <<"1", "0", "2", "4">> => b = <<24, 1>>
            /\ z = <<"1", "K", "i", "B">> => b = <<24, 1>>
            /\ z = <<"3", "2", "G", "B">> => b = <<368, 738, 359, 34>>
            /\ z = <<"3", "2", "G", "i", "B">> => b = <<368, 738, 359, 34>>
            /\ \A n \in WholeNumbers, u \in UnitLetters :
                 z \in {n.digits \o <<u.ch>>, n.digits \o <<u.ch, "B">>,
                        n.digits \o <<u.ch, "i">>,
                        n.digits \o <<u.ch, "i", "B">>}
                   => b = Times(n.val, 1024, u.exp)

C4_Witness ==
    /\ pc = "Ready"
    /\ ret.config.val.BaseImageSize = <<"3", "2", "G", "B">>
    /\ ret.config.val.BaseImageSizeBytes = <<368, 738, 359, 34>>
    /\ file.doc.root_path = StringKey("/tmp")

\* C5: an error of the existence check other than not-exist is returned as
\* it is, and a failure to read the file after the existence check passed
\* is returned with the file-system error as its cause: both are I/O
\* failures, not parse failures.
C5_UnreadableFileIsIOFailure ==
    /\ (pc \in LoadPcs /\ pc # "Stat" /\ file.stat = "EACCES") =>
         /\ pc = "Failed"
         /\ ret = Return(NilConfig, PathError("stat", "EACCES"))
         /\ Kind(ret.err) = "IOFailure"
    /\ (pc \in LoadPcs \ {"Stat", "LoadFile"} /\ file.stat = "ok"
          /\ file.open # "ok") =>
         /\ pc = "Failed"
         /\ ret.config.nil
         /\ ret.err.cause = "os.PathError"
         /\ Kind(ret.err) = "IOFailure"
         /\ executed = <<"Stat", "LoadFile">>

C5_Witness ==
    /\ pc = "Failed" /\ file.stat = "ok" /\ file.open = "EACCES"
    /\ ~file.syntaxOk
    /\ Kind(ret.err) = "IOFailure"

\* C6: a failing LoadConfig returns no record and an error of one kind, the
\* kind of the first failing step; only a validation failure carries a list
\* of messages.
C6_FirstFailureOnly ==
    /\ pc = "Failed" =>
         /\ ret.returned /\ ret.config.nil /\ ret.err # Nil
         /\ Kind(ret.err) \in {"NotFound", "IOFailure", "ParseFailure",
                               "ValidationFailure"}
         /\ Kind(ret.err) = FirstFailure(file)
         /\ Kind(ret.err) # "ValidationFailure" => ret.err.errors = <<>>
    /\ pc = "Ready" => FirstFailure(file) = "none"

C6_Witness ==
    /\ pc = "Failed"
    /\ file.doc.base_image_size = StringKey(<<"a", "b", "c">>)
    /\ file.doc.pool_name.type = "absent"
    /\ Kind(ret.err) = "ParseFailure"

\* C7: once the document is deserialized AsyncRemove and DiscardBlocks hold
\* the document's values, false for an absent key, through every later step
\* and in the returned record; and whether the load succeeds does not
\* depend on them.
C7_FlagsPassThrough ==
    LET async   == file.doc.async_remove.type = "bool"
                     /\ file.doc.async_remove.b
        discard == file.doc.discard_blocks.type = "bool"
                     /\ file.doc.discard_blocks.b
        plain   == [file EXCEPT
                      !.doc.async_remove = [type |-> "absent", b |-> FALSE],
                      !.doc.discard_blocks = [type |-> "absent", b |-> FALSE]]
    IN  /\ pc \in {"parse", "Validate", "Return", "Ready"} =>
             /\ config.AsyncRemove = async
             /\ config.DiscardBlocks = discard
        /\ pc = "Ready" =>
             /\ ret.config.val.AsyncRemove = async
             /\ ret.config.val.DiscardBlocks = discard
        /\ (pc \in {"Ready", "Failed"}
              /\ file.doc.async_remove.type \in {"absent", "bool"}
              /\ file.doc.discard_blocks.type \in {"absent", "bool"}) =>
             (pc = "Ready" <=> FirstFailure(plain) = "none")

C7_Witness ==
    /\ pc = "Ready"
    /\ file.doc.async_remove = [type |-> "bool", b |-> TRUE]
    /\ file.doc.discard_blocks.type = "absent"
    /\ ret.config.val.AsyncRemove /\ ~ret.config.val.DiscardBlocks

\* C8: LoadConfig never returns the message "base_image_size is required",
\* and a readable document whose base_image_size is absent or empty fails
\* with a parse failure whatever its other keys.
C8_EmptySizeFailsInParse ==
    /\ pc = "Failed" =>
         "base_image_size is required" \notin Range(ret.err.errors)
    /\ (pc \in {"Ready", "Failed"} /\ file.stat = "ok" /\ file.open = "ok"
          /\ file.syntaxOk
          /\ file.doc.base_image_size
                \in {AbsentString(<<>>), StringKey(<<>>)}) =>
         /\ pc = "Failed"
         /\ Kind(ret.err) = "ParseFailure"

C8_Witness ==
    /\ pc = "Failed"
    /\ file.stat = "ok" /\ file.open = "ok" /\ file.syntaxOk
    /\ Convertible(file.doc)
    /\ file.doc.base_image_size.type = "absent"
    /\ file.doc.pool_name.type = "absent"
    /\ executed = <<"Stat", "LoadFile", "Unmarshal", "parse">>
    /\ Kind(ret.err) = "ParseFailure"

\* C9: a call of Validate leaves the record as it was and answers from
\* RootPath, PoolName and BaseImageSize alone: it succeeds when the three
\* are non-empty, whatever BaseImageSizeBytes and the flags are.
C9_ValidateReadsRequiredFieldsOnly ==
    [][pc = "ValidateCall" =>
         /\ config' = config
         /\ ret'.config = Ref(config)
         /\ (config.RootPath # "" /\ config.PoolName # ""
               /\ config.BaseImageSize # <<>>) => ret'.err = Nil
         /\ Range(ret'.err.errors)
              = ExpectedMessages(config.RootPath, config.PoolName,
                                 config.BaseImageSize)]_vars

C9_Witness ==
    /\ pc = "ValidateDone"
    /\ ret.err = Nil
    /\ config.BaseImageSize = <<"a", "b", "c">>
    /\ config.BaseImageSizeBytes = <<7>>
    /\ config.AsyncRemove

\* the statements of LoadConfig in program order, then its successful end
Statements ==
    <<"Stat", "LoadFile", "Unmarshal", "parse", "Validate", "Return", "Ready">>

\* the stage LoadConfig is in after each number of executed statements
Stages ==
    <<"Unloaded", "Unloaded", "Unloaded", "Deserialized", "Normalized",
      "Validated", "Ready">>

\* C10: the statements LoadConfig has executed are an initial part of its
\* program order and it stands at the next one or has failed, so that the
\* stages Unloaded, Deserialized, Normalized, Validated, Ready are passed in
\* that order, none skipped or repeated; it can step until it is Ready or
\* Failed and cannot step from there; it is Ready only after Validate
\* accepted the normalized record, and Failed only with an error.
C10_StagesInOrder ==
    pc \in LoadPcs =>
        /\ Len(executed) <= 6
        /\ executed = SubSeq(Statements, 1, Len(executed))
        /\ pc \in {Statements[Len(executed) + 1], "Failed"}
        /\ pc = "Failed" => Len(executed) \in 1..5
        /\ StageOf(pc) \in {Stages[Len(executed) + 1], "Failed"}
        /\ pc \notin {"Ready", "Failed"} => ENABLED Next
        /\ pc \in {"Ready", "Failed"} => ~ENABLED Next
        /\ pc = "Ready" =>
             /\ ~ret.config.nil /\ ret.err = Nil
             /\ Validate(ret.config.val).err = Nil
             /\ parse(ret.config.val) = [c |-> ret.config.val, err |-> Nil]
        /\ pc = "Failed" => ret.config.nil /\ ret.err # Nil

C10_Witness ==
    /\ pc = "Ready"
    /\ executed = <<"Stat", "LoadFile", "Unmarshal", "parse", "Validate",
                    "Return">>

====
